---- MODULE Spec2Model ----
(***************************************************************************)
(* A model of festis.telestaff.Telestaff: the session/auth layer, the      *)
(* resource locator, the facade and the roster extractor.                  *)
(*                                                                         *)
(* Every public operation is one action.  The answers of the server (and   *)
(* the documents it serves) are the inputs of an action, drawn from small  *)
(* sets; the action records them in env, the requests the session was      *)
(* asked to make in log, and what the caller got back in result.           *)
(***************************************************************************)
EXTENDS Integers, Sequences, FiniteSets, TLC

VARIABLES
    call,       \* the operation last called, with its arguments
    env,        \* the server's answers to that call
    result,     \* what the call handed back: a value or a raised exception
    log,        \* the session.get / session.post calls of that call, in order
    ran,        \* the extractor the call applied to a response body, or "none"
    csrfToken,  \* creds['telestaff']['CSRFToken']
    xhrHeaders  \* TRUE once get_telestaff_picklist has updated session.headers

vars == <<call, env, result, log, ran, csrfToken, xhrHeaders>>

(***************************************************************************)
(* Values                                                                  *)
(***************************************************************************)

\* Python's None and False, and the key that is not in a dict.
None    == "None"
NoToken == "<no key>"

\* What a call hands back.
Dict(status_code, data) ==
    [tag |-> "dict", status_code |-> status_code, data |-> data]
ReturnsFalse == [tag |-> "False"]
ReturnsNone  == [tag |-> "None"]
Raises(exc)  == [tag |-> "raised", exc |-> exc]

\* The payload of a {status_code, data} result: a message or an exception,
\* with the number interpolated into the message (0 when there is none), and
\* the parsed value when the payload is an extractor's output.
Msg(text)            == [msg |-> text, code |-> 0, value |-> None]
MsgCode(text, code)  == [msg |-> text, code |-> code, value |-> None]
Parsed(value)        == [msg |-> "parsed", code |-> 0, value |-> value]

build_response_dict(status_code, data) == Dict(status_code, data)

(***************************************************************************)
(* URLs.  A resolved URL is the host followed by its path segments and an  *)
(* optional query string.                                                  *)
(***************************************************************************)
Url(path, query) == [path |-> path, query |-> query]

LoginUrl        == Url(<<"login">>, "")
PageUrl         == Url(<<"calendar", "dashboard">>, "")

\* The URLs a request resolves to: the login page, with and without a
\* query, the contact-log interstitial page, and a page of the application.
ResolvedUrls ==
    {LoginUrl, Url(<<"login">>, "next=1"), Url(<<"checkContactLog">>, ""),
     PageUrl}

\* urlparse(url).path == '/login'
check_if_logged_out(url) == url.path = <<"login">>

\* url.endswith('/checkContactLog') and url.endswith('login'): the URL
\* string ends with its last path segment exactly when no query string
\* follows the path.  (The second suffix has no slash, so it also matches a
\* longer last segment that ends in these letters; the segments of
\* ResolvedUrls have none.)
EndsWithSegment(url, segment) ==
    /\ url.query = ""
    /\ Len(url.path) > 0
    /\ url.path[Len(url.path)] = segment


(***************************************************************************)
(* Resource locator                                                        *)
(***************************************************************************)
Today == "today"

UrlKeys == {"loginPage", "logout", "login", "contactLog", "dispoContactLog",
            "pickList", "customPickList", "pickListData", "roster",
            "rosterFull", "calendar", "dashboard"}

\* The request URL of a known key: its template and, for the keys whose
\* template embeds the date, the date put into it.
Path(key, date) ==
    [key |-> key,
     date |-> IF key \in {"pickList", "roster", "rosterFull", "calendar"}
              THEN date ELSE None]

\* The sentinel of an unknown key: Python's False, which is no URL.
NoResource == [key |-> "<False>", date |-> None]

\* A locator that builds a URL from any key, known or not.
resource_url_any(resource_type, date) ==
    Path(IF resource_type = None \/ resource_type = "" THEN "dashboard"
         ELSE resource_type,
         IF date = None \/ date = "" THEN Today ELSE date)

resource_url(resource_type, date) ==
    LET rt == IF resource_type = None \/ resource_type = ""
              THEN "dashboard" ELSE resource_type
        d  == IF date = None \/ date = "" THEN Today ELSE date
    IN  IF rt \in UrlKeys THEN Path(rt, d) ELSE NoResource

(***************************************************************************)
(* Documents.  An HTML text is modelled by its element tree, as            *)
(* BeautifulSoup builds it: each element has a tag, its class tokens, its  *)
(* other attributes, its own text and its child elements in source order.  *)
(* A text is the sequence of its characters.                               *)
(***************************************************************************)
Node(tag, cls, attrs, text, kids) ==
    [tag |-> tag, cls |-> cls, attrs |-> attrs, text |-> text, kids |-> kids]

NoAttrs == << >>

Last(s)  == s[Len(s)]
Front(s) == SubSeq(s, 1, Len(s) - 1)

\* The positions of the elements below n, in document order; a position is
\* the sequence of child indices that leads to the element.
RECURSIVE PathsFrom(_, _, _)
PathsFrom(n, prefix, i) ==
    IF i > Len(n.kids) THEN << >>
    ELSE <<Append(prefix, i)>>
         \o PathsFrom(n.kids[i], Append(prefix, i), 1)
         \o PathsFrom(n, prefix, i + 1)

RECURSIVE NodeAt(_, _)
NodeAt(n, p) == IF p = << >> THEN n ELSE NodeAt(n.kids[Head(p)], Tail(p))

NodesAt(n, ps) == [i \in 1..Len(ps) |-> NodeAt(n, ps[i])]

\* The elements below n, in document order.
Descendants(n) == NodesAt(n, PathsFrom(n, << >>, 1))

HasClass(n, c)    == \E i \in DOMAIN n.cls : n.cls[i] = c
HasClassIn(n, cs) == \E i \in DOMAIN n.cls : n.cls[i] \in cs
has_attr(n, a)    == a \in DOMAIN n.attrs

\* soup.find_all(tag, ...) on the elements `all` below soup: those that
\* pass the test, in document order.  soup.find(...) is the first of them,
\* or None when the sequence is empty.
WithTag(all, tag) == SelectSeq(all, LAMBDA n : n.tag = tag)
WithClass(all, tag, class_name) ==
    SelectSeq(all, LAMBDA n : n.tag = tag /\ HasClass(n, class_name))
WithClassIn(all, tag, class_names) ==
    SelectSeq(all, LAMBDA n : n.tag = tag /\ HasClassIn(n, class_names))
WithAttr(all, tag, attr, value) ==
    SelectSeq(all, LAMBDA n : n.tag = tag /\ has_attr(n, attr)
                              /\ n.attrs[attr] = value)

\* The outcome of an extractor: the value it returns, or the exception it
\* raises.
Ok(value) == [ok |-> TRUE, value |-> value, exc |-> None]
Err(exc)  == [ok |-> FALSE, value |-> None, exc |-> exc]

\* dict.update(more) on the value of an outcome, when `more` was returned.
Update(more, base) == IF more.ok THEN Ok(more.value @@ base) ELSE more

(***************************************************************************)
(* Extraction engine: title / notes                                        *)
(***************************************************************************)
name_classes == {"dateName", "organizationName", "battalionName", "shiftName",
                 "unitName", "positionName"}

\* str.strip() of a text.
Whitespace == {" "}
RECURSIVE LStrip(_)
LStrip(t) == IF t # << >> /\ Head(t) \in Whitespace THEN LStrip(Tail(t)) ELSE t
RECURSIVE RStrip(_)
RStrip(t) == IF t # << >> /\ Last(t) \in Whitespace THEN RStrip(Front(t)) ELSE t
Strip(t) == RStrip(LStrip(t))

\* The index one past the longest run, from position i on, of characters of
\* t other than c.
RECURSIVE RunEnd(_, _, _)
RunEnd(t, i, c) ==
    IF i <= Len(t) /\ t[i] # c THEN RunEnd(t, i + 1, c) ELSE i

\* The index after an optional character c at position i.
Optional(t, i, c) == IF i <= Len(t) /\ t[i] = c THEN i + 1 ELSE i

\* re.search(r'^({?(\.)?[^{]*){?([^}]*)}?', title_span): every part is
\* optional and greedy, so the first attempt at position 0 matches.  The
\* groups are read off the indices where the parts end.
TitleGroups(t, dot, c, d) ==
    [g1 |-> SubSeq(t, 1, c - 1), g2 |-> dot,
     g3 |-> SubSeq(t, d, RunEnd(t, d, "}") - 1)]                    \* ([^}]*)
TitleAfterDot(t, a, b) ==
    TitleGroups(t, b > a, RunEnd(t, b, "{"),                        \* [^{]*
                Optional(t, RunEnd(t, b, "{"), "{"))                \* {?
TitleMatch(t) ==
    TitleAfterDot(t, Optional(t, 1, "{"),                           \* {?
                  Optional(t, Optional(t, 1, "{"), "."))            \* (\.)?

\* The three fields when the annotation is kept under suppression too.
TitleFields_keep(title_span, m) ==
    [title |-> IF m.g1 # << >> THEN Strip(m.g1) ELSE title_span,
     isSuppressed |-> m.g2,
     notes |-> IF m.g3 # << >> THEN Strip(m.g3) ELSE << >>]

\* The three fields, from the title text and the groups of the match.
TitleFields(title_span, m) ==
    [title |-> IF m.g1 # << >> THEN Strip(m.g1) ELSE title_span,
     isSuppressed |-> m.g2,
     notes |-> IF m.g3 # << >> /\ ~m.g2 THEN Strip(m.g3) ELSE << >>]

TitleRule(title_span) == TitleFields(title_span, TitleMatch(title_span))

\* tmp.span.text.strip(), or the empty text when tmp has no span.
FirstSpanText(spans) == IF spans = << >> THEN << >> ELSE Strip(spans[1].text)

\* The title text: the first span's, or else the positionNameText span's.
TitleSpan(first, named) ==
    IF first # << >> THEN Ok(TitleRule(first))
    ELSE IF named = << >> THEN Err("AttributeError")    \* None.text
    ELSE Ok(TitleRule(named[1].text))

NameOfDiv(spans) ==
    TitleSpan(FirstSpanText(spans), SelectSeq(spans, LAMBDA n : HasClass(n, "positionNameText")))

NameField(divs) ==
    IF divs = << >>
    THEN Ok([title |-> << >>, notes |-> << >>, isSuppressed |-> FALSE])
    ELSE NameOfDiv(WithTag(Descendants(divs[1]), "span"))

get_roster_name_field(soup) ==
    NameField(WithClassIn(Descendants(soup), "div", name_classes))

(***************************************************************************)
(* Extraction engine: member info                                          *)
(***************************************************************************)
\* rect['style'].replace('fill:', ''), on the style values of the model.
StripFill(style) ==
    CASE style = "fill:#ff0000" -> "#ff0000"
      [] OTHER -> style

\* {key: found[attr]} when the element found has the attribute.
Read(found, attr, key) ==
    IF has_attr(found[1], attr) THEN (key :> found[1].attrs[attr]) ELSE << >>

\* The fields the work-code block of get_member_info sets, from the
\* workcode element, its exceptionCode spans and the rect elements of its
\* svg.  isRequest holds either a truth value of the language, written
\* "True" or "False", or the text of the data-popup-request attribute.
WorkCodeFields(codes, styleSpans, rects) ==
    [exceptioncode |-> styleSpans[1].text]
    @@ (IF has_attr(codes, "data-popup-request")
        THEN [isRequest |-> codes.attrs["data-popup-request"]]
        ELSE IF has_attr(codes, "data-popup-statusenum")
        THEN [isRequest |->
                IF codes.attrs["data-popup-statusenum"] = "APPROVAL_PENDING"
                THEN "True" ELSE "False"]
        ELSE << >>)
    @@ (IF has_attr(rects[1], "style")
        THEN [workcode_style |->
                <<styleSpans[1].attrs["style"], "background-color: ",
                  StripFill(rects[1].attrs["style"])>>]
        ELSE IF has_attr(styleSpans[1], "style")
        THEN [workcode_style |-> <<styleSpans[1].attrs["style"]>>]
        ELSE << >>)
    @@ [workcode |-> codes.attrs["data-popup-title"]]

WorkCode(codes, styleSpans, svgs) ==
    IF ~has_attr(codes, "data-popup-title") THEN Ok(<< >>)
    ELSE IF styleSpans = << >> THEN Err("AttributeError")      \* None.has_attr
    ELSE IF svgs = << >> THEN Err("AttributeError")            \* None.rect
    ELSE IF WithTag(Descendants(svgs[1]), "rect") = << >>
    THEN Err("AttributeError")                                 \* None.has_attr
    ELSE IF /\ has_attr(WithTag(Descendants(svgs[1]), "rect")[1], "style")
            /\ ~has_attr(styleSpans[1], "style")
    THEN Err("KeyError")                          \* data['workcode_style'] +=
    ELSE Ok(WorkCodeFields(codes, styleSpans, WithTag(Descendants(svgs[1]), "rect")))

\* The three flags when a vacancy marker also clears isAssigned.
StatusFlags_linked(all) ==
    [isWorking  |-> WithClass(all, "div", "nonWorking") = << >>,
     isAssigned |-> /\ WithClass(all, "div", "unassignedPosition") = << >>
                    /\ WithClass(all, "div", "vacancyDisplay") = << >>,
     isVacant   |-> WithClass(all, "div", "vacancyDisplay") # << >>]

\* The three status flags, each from the div of its own class among the
\* elements `all` below soup.
StatusFlags(all) ==
    [isWorking  |-> WithClass(all, "div", "nonWorking") = << >>,
     isAssigned |-> WithClass(all, "div", "unassignedPosition") = << >>,
     isVacant   |-> WithClass(all, "div", "vacancyDisplay") # << >>]

\* get_member_info from the lookup that fails first on, given the elements
\* `all` below soup and the outcome of the work-code block.
MemberInfo(soup, all, resourceDisplay, fid, wc) ==
    IF ~wc.ok THEN wc
    ELSE IF WithAttr(WithClass(all, "div", "shiftTimes"), "div",
                     "data-popup-title", "From") = << >>
    THEN Err("AttributeError")
    ELSE IF WithAttr(WithClass(all, "div", "shiftTimes"), "div",
                     "data-popup-title", "Through") = << >>
    THEN Err("AttributeError")
    ELSE IF WithClass(all, "div", "shiftDuration") = << >>
    THEN Err("AttributeError")
    ELSE Ok(Read(WithClass(all, "div", "shiftDuration"), "data-popup-value", "duration")
            @@ Read(WithAttr(WithClass(all, "div", "shiftTimes"), "div",
                             "data-popup-title", "Through"),
                    "data-popup-value", "endTime")
            @@ Read(WithAttr(WithClass(all, "div", "shiftTimes"), "div",
                             "data-popup-title", "From"),
                    "data-popup-value", "startTime")
            @@ wc.value
            @@ Read(fid, "data-id", "badge")
            @@ Read(resourceDisplay, "data-popup-specialties", "specialties")
            @@ Read(resourceDisplay, "data-popup-title", "name")
            @@ StatusFlags(all)
            @@ [id |-> IF has_attr(soup, "data-id") THEN soup.attrs["data-id"] ELSE 0]
            @@ [id |-> 0, name |-> "", specialties |-> "", badge |-> "",
                workcode |-> "", exceptioncode |-> "", isRequest |-> "False",
                startTime |-> "", endTime |-> "", duration |-> 24,
                isWorking |-> TRUE, isAssigned |-> TRUE, isVacant |-> FALSE])

MemberLookups(soup, all, resourceDisplay, fid, codes) ==
    IF resourceDisplay = << >> THEN Err("AttributeError")
    ELSE IF fid = << >> THEN Err("AttributeError")
    ELSE IF codes = << >> THEN Err("AttributeError")
    ELSE MemberInfo(soup, all, resourceDisplay, fid,
                    WorkCode(codes[1],
                             WithClass(Descendants(codes[1]), "span", "exceptionCode"),
                             WithClass(Descendants(codes[1]), "svg", "svg")))

get_member_info(soup) ==
    MemberLookups(soup, Descendants(soup),
                  WithAttr(Descendants(soup), "div", "data-field", "resourcedisplay"),
                  WithAttr(Descendants(soup), "div", "data-field", "idcolumn"),
                  WithAttr(Descendants(soup), "div", "data-field", "workcode"))

(***************************************************************************)
(* Extraction engine: roster                                               *)
(***************************************************************************)
idClasses == {"idDate", "idInstitution", "idAgency", "idBatallion", "idShift",
              "idStation", "idUnit", "idPosition"}

\* token[2:], on the class tokens of the model.
Drop2(token) ==
    CASE token = "idShift"    -> "Shift"
      [] token = "idUnit"     -> "Unit"
      [] token = "idStation"  -> "Station"
      [] token = "idPosition" -> "Position"
      [] token = "selected"   -> "lected"
      [] token = "row"        -> "w"

IsIdLi(n) == n.tag = "li" /\ HasClassIn(n, idClasses)

\* data.setdefault(groupType, []).append(groupData)
SetDefaultAppend(data, groupType, groupData) ==
    IF groupType \in DOMAIN data
    THEN [data EXCEPT ![groupType] = Append(@, groupData)]
    ELSE (groupType :> <<groupData>>) @@ data

RECURSIVE parse_roster(_), RosterLoop(_, _, _), RosterStep(_, _, _, _),
          GroupData(_, _), RosterFrom(_, _)

\* The record of one item of the loop of parse_roster, given its name
\* fields.
GroupData(li, name) ==
    IF ~name.ok THEN name
    ELSE IF "Position" = Drop2(li.cls[1])
    THEN Update(get_member_info(li), name.value)
    ELSE IF WithClassIn(Descendants(li), "li", idClasses) # << >>
    THEN Update(parse_roster(li), name.value)
    ELSE name

\* The loop of parse_roster over lis, from item i on, with data so far.
RosterStep(lis, i, data, groupData) ==
    IF ~groupData.ok THEN groupData
    ELSE RosterLoop(lis, i + 1,
                    SetDefaultAppend(data, Drop2(lis[i].cls[1]), groupData.value))

RosterLoop(lis, i, data) ==
    IF i > Len(lis) THEN Ok(data)
    ELSE RosterStep(lis, i, data,
                    GroupData(lis[i], get_roster_name_field(lis[i])))

\* first_li and its following siblings that carry a hierarchy marker.
Siblings(soup, first_li) ==
    <<NodeAt(soup, first_li)>>
    \o SelectSeq(SubSeq(NodeAt(soup, Front(first_li)).kids,
                        Last(first_li) + 1,
                        Len(NodeAt(soup, Front(first_li)).kids)),
                 IsIdLi)

\* parse_roster, given the positions of the marked list items below soup.
RosterFrom(soup, ps) ==
    IF ps = << >>
    THEN Err("AttributeError")     \* None.find_next_siblings
    ELSE RosterLoop(Siblings(soup, ps[1]), 1, << >>)

parse_roster(soup) ==
    RosterFrom(soup, SelectSeq(PathsFrom(soup, << >>, 1),
                               LAMBDA p : IsIdLi(NodeAt(soup, p))))

\* roster['type'] = 'roster'
TagRoster(roster) ==
    IF roster.ok THEN Ok([type |-> "roster"] @@ roster.value) ELSE roster

RosterOf(found) ==
    IF found = << >> THEN Ok([error |-> "No roster found"])
    ELSE TagRoster(parse_roster(found[1]))

parse_web_staff_roster(raw) ==
    RosterOf(WithClass(Descendants(raw), "ol", "rosterTableList"))

(***************************************************************************)
(* Extraction engine: calendar                                             *)
(***************************************************************************)
\* text.strip().replace('\n', '').replace('\r', '').replace('\t', '')
clean_string(text) ==
    SelectSeq(Strip(text), LAMBDA c : c \notin {"\n", "\r", "\t"})

\* get_clean_string: the cleaned text, or the empty text for Python's False
\* (both are falsy, and the callers only test the truth value).
get_clean_string(soup, class_name) ==
    IF WithClass(Descendants(soup), "div", class_name) = << >> THEN << >>
    ELSE clean_string(WithClass(Descendants(soup), "div", class_name)[1].text)

\* A date label is a text whose characters are grouped in words:
\* "Monday", ",", " ", "January", " ", "01", ",", " ", "2024".
MonthNumber(word) ==
    CASE word = "January"  -> "01"
      [] word = "February" -> "02"
      [] OTHER -> ""
\* The days %d reads, with or without the leading zero, and their two digits;
\* a day the month does not have makes strptime fail.
DayNumber(month, word) ==
    CASE word \in {"1", "01"} -> "01"
      [] word \in {"30"} /\ month # "February" -> "30"
      [] OTHER -> ""

\* datetime.strptime(dateText, '%A, %B %d, %Y').strftime('%Y%m%d')
ParseDate(dateText) ==
    IF /\ Len(dateText) = 9
       /\ dateText[1] \in {"Monday", "Tuesday"}
       /\ dateText[2] = "," /\ dateText[3] = " "
       /\ MonthNumber(dateText[4]) # ""
       /\ dateText[5] = " "
       /\ DayNumber(dateText[4], dateText[6]) # ""
       /\ dateText[7] = "," /\ dateText[8] = " "
       /\ dateText[9] \in {"2024"}
    THEN Ok(<<dateText[9], MonthNumber(dateText[4]),
              DayNumber(dateText[4], dateText[6])>>)
    ELSE Err("ValueError")

\* event[key] = text, when the text is truthy.
Field(key, text) == IF text # << >> THEN (key :> text) ELSE << >>

\* One event of parse_calendar, from the div elements below its box on.
EventBox(eventsoup, all, inner) ==
    IF inner = << >> THEN Err("AttributeError")           \* None.has_attr
    ELSE Ok(Read(inner, "style", "icon_style")
            @@ Field("exception-code", get_clean_string(eventsoup, "exception"))
            @@ Field("length", get_clean_string(eventsoup, "listItemHours"))
            @@ Field("time", get_clean_string(eventsoup, "listItemStartTime"))
            @@ Field("location", get_clean_string(eventsoup, "listItemWhere"))
            @@ Field("name", get_clean_string(eventsoup, "listItemName"))
            @@ [type |-> IF has_attr(eventsoup, "data-attrtype")
                         THEN eventsoup.attrs["data-attrtype"] ELSE "unknown",
                isRequest |-> WithClass(all, "span", "glyphicon-asterisk") # << >>])

EventIn(eventsoup, all, boxes) ==
    IF boxes = << >> THEN Err("AttributeError")           \* None.div
    ELSE EventBox(eventsoup, all, WithTag(Descendants(boxes[1]), "div"))

Event(eventsoup) ==
    EventIn(eventsoup, Descendants(eventsoup),
            WithClass(Descendants(eventsoup), "div", "listItemBox"))

\* The loop over the events of a day, from event i on.
RECURSIVE EventLoop(_, _, _), EventStep(_, _, _, _)
EventStep(eventssoup, i, events, event) ==
    IF ~event.ok THEN event
    ELSE EventLoop(eventssoup, i + 1, Append(events, event.value))

EventLoop(eventssoup, i, events) ==
    IF i > Len(eventssoup) THEN Ok(events)
    ELSE EventStep(eventssoup, i, events, Event(eventssoup[i]))

\* One day when a label that does not parse gives a default date.
DayEvents_default(dateDiv, events) ==
    IF ~events.ok THEN events
    ELSE Ok([date |-> IF ParseDate(Strip(dateDiv.text)).ok
                      THEN ParseDate(Strip(dateDiv.text)).value
                      ELSE <<"1970", "01", "01">>,
             events |-> events.value])

\* One day of parse_calendar.
DayEvents(dateDiv, events) ==
    IF ~events.ok THEN events
    ELSE IF ~ParseDate(Strip(dateDiv.text)).ok THEN ParseDate(Strip(dateDiv.text))
    ELSE Ok([date |-> ParseDate(Strip(dateDiv.text)).value,
             events |-> events.value])

DayOf(dateDivs, eventssoup) ==
    IF dateDivs = << >> THEN Err("AttributeError")        \* None.text
    ELSE DayEvents(dateDivs[1], EventLoop(eventssoup, 1, << >>))

Day(day) ==
    DayOf(WithClass(Descendants(day), "div", "dateDiv"),
          WithClass(Descendants(day), "div", "listItem"))

\* The loop over the days, from day i on.
RECURSIVE DayLoop(_, _, _), DayStep(_, _, _, _)
DayStep(days, i, daysData, day) ==
    IF ~day.ok THEN day
    ELSE DayLoop(days, i + 1, Append(daysData, day.value))

DayLoop(days, i, daysData) ==
    IF i > Len(days) THEN Ok(daysData)
    ELSE DayStep(days, i, daysData, Day(days[i]))

parse_calendar(soup) ==
    DayLoop(WithClass(Descendants(soup), "div", "calendarDay"), 1, << >>)

\* re.search(r'\(([^)]*)\)?\s?([\S]*)[\D]*([^a-zA-Z]*)', header), on the
\* characters of the model: the match starts at the first "(", and every
\* part after it is optional and greedy.
\* The character classes \S, \D and [^a-zA-Z], on the characters of the
\* model.
InClass(c, class) ==
    CASE class = "\\S"        -> c \notin Whitespace
      [] class = "\\D"        -> c \notin {"0", "1", "2"}
      [] class = "[^a-zA-Z]" -> c \notin {"A", "B", "a", "b"}

RECURSIVE ClassEnd(_, _, _)
ClassEnd(t, i, class) ==
    IF i <= Len(t) /\ InClass(t[i], class) THEN ClassEnd(t, i + 1, class) ELSE i

OptionalSpace(t, i) == IF i <= Len(t) /\ t[i] \in Whitespace THEN i + 1 ELSE i

HeaderGroups(header, a, b, d, e, f) ==
    [owner |-> Strip(SubSeq(header, a, b - 1)),
     start |-> Strip(SubSeq(header, d, e - 1)),
     end   |-> Strip(SubSeq(header, f,
                            ClassEnd(header, f, "[^a-zA-Z]") - 1))]  \* ([^a-zA-Z]*)
HeaderAfterSpace(header, a, b, d) ==
    HeaderGroups(header, a, b, d, ClassEnd(header, d, "\\S"),        \* ([\S]*)
                 ClassEnd(header, ClassEnd(header, d, "\\S"), "\\D")) \* [\D]*
HeaderAfterOwner(header, a, b) ==
    HeaderAfterSpace(header, a, b,
                     OptionalSpace(header, Optional(header, b, ")"))) \* \)?\s?
HeaderFrom(header, open) ==
    IF open > Len(header) THEN << >>
    ELSE HeaderAfterOwner(header, open + 1,
                          RunEnd(header, open + 1, ")"))              \* ([^)]*)
HeaderMatch(header) == HeaderFrom(header, RunEnd(header, 1, "("))     \* \(

CalendarData(fields, days) ==
    IF ~days.ok THEN days
    ELSE Ok([days |-> days.value] @@ fields @@ [type |-> "calendar"])

FullCalendar(header, calendar_container) ==
    CalendarData(IF header # << >> THEN HeaderMatch(header) ELSE << >>,
                 IF calendar_container # << >>
                 THEN parse_calendar(calendar_container[1]) ELSE Ok(<< >>))

parse_full_calendar(raw) ==
    FullCalendar(get_clean_string(raw, "listHeader"),
                 WithClassIn(Descendants(raw), "div",
                             {"fullWidth", "topMarginSmall"}))

Dashboard(date_range_element, days) ==
    IF ~days.ok THEN days
    ELSE Ok([type |-> "dashboard",
             daterange |-> IF date_range_element # << >>
                           THEN Strip(date_range_element[1].text)
                           ELSE <<"Unknown">>,
             days |-> days.value])

parse_calendar_dashboard(raw) ==
    Dashboard(WithClass(Descendants(raw), "span", "dateRange"), parse_calendar(raw))

(***************************************************************************)
(* The server's answers.  A request either fails in transport (the client  *)
(* library raises a RequestException) or is answered with a status, the    *)
(* URL it resolved to after redirects, and a body.                         *)
(***************************************************************************)
NoElement == "<no element>"

\* A body: the element tree of its text, and what the text is as JSON.
Body(html, json) == [html |-> html, json |-> json]

Document(kids) == Node("[document]", << >>, NoAttrs, << >>, kids)
Input(name, value) ==
    Node("input", << >>, [name |-> name, value |-> value], << >>, << >>)
Select(name, unselected, selected) ==
    Node("select", << >>, [name |-> name], << >>,
         <<Node("option", << >>, [value |-> unselected], << >>, << >>),
           Node("option", << >>, [value |-> selected, selected |-> ""],
                << >>, << >>)>>)

\* The login page, with the value of its CSRFToken input (or without one).
LoginDoc(csrf) ==
    Document(IF csrf = NoElement THEN << >> ELSE <<Input("CSRFToken", csrf)>>)

\* The pick-list page with its selection form.
PickListDoc ==
    Document(<<Input("date", "20240101"),
               Select("regionTbl", "r1", "r2"),
               Select("shiftTbl", "s2", "s1"),
               Input("CSRFToken", "tok2")>>)

Answer(status, url, body) ==
    [net |-> TRUE, status |-> status, url |-> url, body |-> body]
NetFail ==
    [net |-> FALSE, status |-> 0, url |-> LoginUrl,
     body |-> Body(LoginDoc(NoElement), "invalid")]

\* Response.raise_for_status(): HTTPError for a 4xx or 5xx status.
raises_for_status(response) == response.status >= 400 /\ response.status < 600

\* One call of session.get or session.post, as the log keeps it.  A URL that
\* is no URL (the locator's False) makes the client library raise
\* MissingSchema, a RequestException, before anything is sent.
Get(url)        == [m |-> "GET", url |-> url, sent |-> url # NoResource]
Post(url, data) == [m |-> "POST", url |-> url, sent |-> url # NoResource,
                    data |-> data]

\* The outcome of a call: its result, its requests, the token it leaves in
\* creds, and the extractor it ran on a response body.
Outcome(res, requests, token, extractor) ==
    [result |-> res, log |-> requests, token |-> token, ran |-> extractor]

(***************************************************************************)
(* Session / auth                                                          *)
(***************************************************************************)
\* csrf_element.get('value') if csrf_element else None
CsrfElement(page_response) ==
    WithAttr(Descendants(page_response.body.html), "input", "name", "CSRFToken")

get_csrf_token(page_response) ==
    IF CsrfElement(page_response) = << >> THEN None
    ELSE IF has_attr(CsrfElement(page_response)[1], "value")
    THEN CsrfElement(page_response)[1].attrs["value"]
    ELSE None

\* Python's truth value of what get_csrf_token returns.
Falsy(v) == v = None \/ v = ""

\* The result of an except clause of do_login or do_logout: the message is
\* a plain string, so "{e}" is not replaced.
Caught(message) == build_response_dict(500, Msg(message))

\* do_login from the login page request on, with the token the page holds.
LoginSteps(token, ntlm, page, post, csrf_token, get1, post1) ==
    IF ~page.net
    THEN Outcome(Caught("Login failed with error: {e}"), <<get1>>, token, "none")
    ELSE IF page.status = 401 /\ ntlm
    \* self.domainUser(): no such attribute (the method is domain_user)
    THEN Outcome(Caught("Login failed with unknown error: {e}"), <<get1>>, token, "none")
    ELSE IF raises_for_status(page)
    THEN Outcome(Caught("Login failed with HTTP Error: {e}"), <<get1>>, token, "none")
    ELSE IF page.status # 200
    THEN Outcome(build_response_dict(500,
                    MsgCode("Application error loging onto Teletsaff: ",
                            page.status)),
                 <<get1>>, token, "none")
    ELSE IF Falsy(csrf_token)
    THEN Outcome(ReturnsFalse, <<get1>>, token, "none")
    ELSE IF ~post.net
    THEN Outcome(Caught("Login failed with error: {e}"), <<get1, post1>>, csrf_token, "none")
    ELSE IF EndsWithSegment(post.url, "checkContactLog")
    \* resource_url('contactLog?myContactLog=true'): the whole string is the
    \* key, it is not in the table, and session.get(False) raises
    \* MissingSchema
    THEN Outcome(Caught("Login failed with error: {e}"),
                 <<get1, post1,
                   Get(resource_url("contactLog?myContactLog=true", None))>>,
                 csrf_token, "none")
    \* build_response_dict(login_response.status_code, data): the local
    \* `data` is bound only on the path that returned above
    ELSE Outcome(Caught("Login failed with unknown error: {e}"), <<get1, post1>>, csrf_token, "none")

\* do_login, on a client whose creds hold `token`, when the requests_ntlm
\* import succeeded (ntlm) or not, the login page is answered with `page`
\* and the form POST with `post`.
do_login(token, ntlm, page, post) ==
    LoginSteps(token, ntlm, page, post, get_csrf_token(page),
               Get(resource_url("loginPage", None)),
               Post(resource_url("login", None),
                    [CSRFToken |-> get_csrf_token(page)]))

do_logout(token, answer) ==
    Outcome(IF ~answer.net THEN Caught("Logout failed with error: {e}")
            ELSE IF raises_for_status(answer)
            THEN Caught("Logout failed with HTTP Error: {e}")
            ELSE IF check_if_logged_out(answer.url)
            THEN build_response_dict(200, Msg("Logged out"))
            \* the function ends without a return statement
            ELSE ReturnsNone,
            <<Get(resource_url("logout", None))>>, token, "none")

(***************************************************************************)
(* Facade                                                                  *)
(***************************************************************************)
NoHandler == "False"

handler(kind) ==
    CASE kind = "dashboard"  -> "parse_calendar_dashboard"
      [] kind = "roster"     -> "parse_web_staff_roster"
      [] kind = "rosterFull" -> "parse_web_staff_roster"
      [] kind = "calendar"   -> "parse_full_calendar"
      [] OTHER -> NoHandler

\* handler(response.text), for a handler that is one of the extractors.
Apply(h, text) ==
    CASE h = "parse_calendar_dashboard" -> parse_calendar_dashboard(text)
      [] h = "parse_web_staff_roster"   -> parse_web_staff_roster(text)
      [] h = "parse_full_calendar"      -> parse_full_calendar(text)

\* build_response_dict(response.status_code, handler(response.text)), or
\* the exception the handler raised: no except clause of get_telestaff_data
\* matches it.
Handled(token, get1, h, response, value) ==
    IF value.ok
    THEN Outcome(build_response_dict(response.status, Parsed(value.value)),
                 <<get1>>, token, h)
    ELSE Outcome(Raises(value.exc), <<get1>>, token, h)

get_telestaff_data(token, path, h, response) ==
    IF path = NoResource
    \* MissingSchema is a RequestException and no HTTPError
    THEN Outcome(build_response_dict(500, Msg("MissingSchema")),
                 <<Get(path)>>, token, "none")
    ELSE IF ~response.net
    THEN Outcome(build_response_dict(500, Msg("ConnectionError")),
                 <<Get(path)>>, token, "none")
    ELSE IF raises_for_status(response)
    THEN Outcome(build_response_dict(response.status, Msg("HTTPError")),
                 <<Get(path)>>, token, "none")
    ELSE IF check_if_logged_out(response.url)
    THEN Outcome(build_response_dict(403,
                    Msg("Telestaff username and password combination is incorrect.")),
                 <<Get(path)>>, token, "none")
    ELSE IF h = NoHandler
    THEN Outcome(Raises("TypeError"), <<Get(path)>>, token, "none")  \* False(...)
    ELSE Handled(token, Get(path), h, response, Apply(h, response.body.html))

\* soup.find("select", {"name": name}).find('option', selected=True), as a
\* sequence of at most one element; `all` are the elements of the page.
SelectedOption(all, name) ==
    IF WithAttr(all, "select", "name", name) = << >> THEN << >>
    ELSE SelectSeq(Descendants(WithAttr(all, "select", "name", name)[1]),
                   LAMBDA n : n.tag = "option" /\ has_attr(n, "selected"))

\* element.get('value', '')
ValueOf(found) == IF has_attr(found[1], "value") THEN found[1].attrs["value"] ELSE ""

\* The form fields of the custom pick-list request.
picklist_data(all, chain) ==
    [date |-> ValueOf(WithAttr(all, "input", "name", "date")),
     regionTbl |-> ValueOf(SelectedOption(all, "regionTbl")),
     shiftTbl |-> ValueOf(SelectedOption(all, "shiftTbl")),
     strategyChainTbl |-> chain,
     CSRFToken |-> ValueOf(WithAttr(all, "input", "name", "CSRFToken"))]

\* One of the four lookups of picklist_data finds nothing.
FormMissing(all) ==
    \/ WithAttr(all, "input", "name", "date") = << >>
    \/ SelectedOption(all, "regionTbl") = << >>
    \/ SelectedOption(all, "shiftTbl") = << >>
    \/ WithAttr(all, "input", "name", "CSRFToken") = << >>

\* The try block of get_telestaff_picklist, after the requests `before`.
\* `except requests.exceptions.RequestException`: the module imports names
\* from requests, never requests itself, so matching an exception against
\* this clause raises NameError.
PickListTry(token, requests, data) ==
    IF ~data.net                                  \* ConnectionError
    THEN Outcome(Raises("NameError"), requests, token, "none")
    ELSE IF raises_for_status(data)               \* HTTPError
    THEN Outcome(Raises("NameError"), requests, token, "none")
    ELSE IF EndsWithSegment(data.url, "login")
    THEN Outcome(Dict(403, Msg("Username or password not found.")),
                 requests, token, "none")
    ELSE IF data.body.json = "invalid"            \* JSONDecodeError
    THEN Outcome(Raises("NameError"), requests, token, "json")
    ELSE IF data.body.json # "object"             \* TypeError
    THEN Outcome(Raises("NameError"), requests, token, "json")
    ELSE Outcome(build_response_dict(200, Parsed([type |-> "picklist"])),
                 requests, token, "json")

\* The same when the data request goes out right after the page request,
\* ahead of the selection POST.
PickListPost_getfirst(token, chain, post, data, before) ==
    IF chain # None /\ ~post.net
    THEN Outcome(Raises("ConnectionError"), before, token, "none")
    ELSE PickListTry(token,
                     <<before[1], Get(resource_url("pickListData", None))>>
                     \o SubSeq(before, 2, Len(before)),
                     data)

\* get_telestaff_picklist after the pick-list page request, with the
\* requests `before` made up to the selection POST.
PickListPost(token, chain, post, data, before) ==
    IF chain # None /\ ~post.net
    THEN Outcome(Raises("ConnectionError"), before, token, "none")
    ELSE PickListTry(token,
                     Append(before, Get(resource_url("pickListData", None))),
                     data)

PickListSteps(token, chain, page, post, data, get1, all) ==
    IF ~page.net
    THEN Outcome(Raises("ConnectionError"), <<get1>>, token, "none")
    ELSE IF raises_for_status(page)
    THEN Outcome(Raises("HTTPError"), <<get1>>, token, "none")
    ELSE IF chain = None
    THEN PickListPost(token, chain, post, data, <<get1>>)
    ELSE IF FormMissing(all)
    THEN Outcome(Raises("AttributeError"), <<get1>>, token, "none")
    ELSE PickListPost(token, chain, post, data,
                      <<get1, Post(resource_url("customPickList", None),
                                   picklist_data(all, chain))>>)

\* get_telestaff_picklist, when the pick-list page is answered with `page`,
\* the selection POST with `post` and the data request with `data`.
get_telestaff_picklist(token, date, chain, page, post, data) ==
    PickListSteps(token, chain, page, post, data,
                  Get(resource_url("pickList",
                                   IF date = None \/ date = "" THEN Today ELSE date)),
                  Descendants(page.body.html))

\* get_telestaff, with the answers of the server to the requests of the
\* path it takes.
get_telestaff(token, kind, date, chain, answers) ==
    IF kind = "picklist"
    THEN get_telestaff_picklist(token, date, chain,
                                answers.page, answers.post, answers.data)
    ELSE get_telestaff_data(token, resource_url(kind, date), handler(kind),
                            answers.response)

(***************************************************************************)
(* The inputs of the actions                                               *)
(***************************************************************************)
MaxSiblings == 3
MaxNested   == 2

SeqsUpTo(S, n) == UNION {[1..k -> S] : k \in 0..n}

Span(cls, text) == Node("span", cls, NoAttrs, text, << >>)
Div(cls, attrs, kids) == Node("div", cls, attrs, << >>, kids)

\* The sub-elements of a position item that get_member_info looks up.
MemberParts ==
    <<Div(<< >>, ("data-field" :> "resourcedisplay")
                 @@ ("data-popup-title" :> "Ann"), << >>),
      Div(<< >>, ("data-field" :> "idcolumn") @@ ("data-id" :> "b7"), << >>),
      Div(<< >>, ("data-field" :> "workcode"), << >>),
      Div(<<"shiftTimes">>, ("data-popup-title" :> "From")
                            @@ ("data-popup-value" :> "07:00"), << >>),
      Div(<<"shiftTimes">>, ("data-popup-title" :> "Through")
                            @@ ("data-popup-value" :> "19:00"), << >>),
      Div(<<"shiftDuration">>, ("data-popup-value" :> "12"), << >>)>>

\* A list item: its class tokens, its title, and what else is inside it.
Item(cls, title, inside) ==
    Node("li", cls, NoAttrs, << >>,
         <<Div(<<"shiftName">>, NoAttrs, <<Span(<< >>, title)>>)>> \o inside)

Titles == {<<"A">>, <<"B">>}

\* Items without nested items: group items whose hierarchy marker is or is
\* not their first class token, a list item without a marker, and position
\* items with and without the sub-elements of a member.
LeafItems ==
    {Item(c, t, << >>) :
        c \in {<<"idShift">>, <<"idUnit">>, <<"selected", "idShift">>, <<"row">>},
        t \in Titles}
    \cup {Item(<<"idPosition">>, t, m) : t \in Titles, m \in {MemberParts, << >>}}

RosterDoc(items) ==
    Document(<<Node("ol", <<"rosterTableList">>, NoAttrs, << >>, items)>>)

RosterDocs ==
    {Document(<< >>)}
    \cup {RosterDoc(items) : items \in SeqsUpTo(LeafItems, MaxSiblings)}
    \cup {RosterDoc(<<Item(<<"idShift">>, <<"A">>,
                            <<Node("ol", << >>, NoAttrs, << >>, sub)>>)>> \o rest) :
            sub \in SeqsUpTo({Item(<<"idUnit">>, <<"A">>, << >>),
                              Item(<<"idUnit">>, <<"B">>, << >>),
                              Item(<<"idPosition">>, <<"A">>, MemberParts)},
                             MaxNested),
            rest \in SeqsUpTo({Item(<<"idShift">>, <<"B">>, << >>),
                               Item(<<"idStation">>, <<"A">>, << >>)}, 1)}

\* A dashboard page with one day and one event.
DateLabel == <<"Monday", ",", " ", "January", " ", "01", ",", " ", "2024">>
DashboardDoc ==
    Document(<<Span(<<"dateRange">>, <<"J", "a", "n">>),
               Div(<<"calendarDay">>, NoAttrs,
                   <<Node("div", <<"dateDiv">>, NoAttrs, DateLabel, << >>),
                     Div(<<"listItem">>, ("data-attrtype" :> "shift"),
                         <<Div(<<"listItemBox">>, NoAttrs,
                               <<Div(<< >>, [style |-> "color: red"], << >>)>>)>>)>>)>>)

\* The pages a data request is answered with.
DataDocs ==
    {LoginDoc("tok"), DashboardDoc, RosterDoc(<< >>),
     RosterDoc(<<Item(<<"idShift">>, <<"A">>, << >>)>>)}

LoginPageAnswers ==
    {NetFail} \cup
    {Answer(s, LoginUrl, Body(LoginDoc(c), "invalid")) :
        s \in {200, 204, 401, 404}, c \in {NoElement, "", "tok"}}

PostAnswers ==
    {NetFail} \cup
    {Answer(s, u, Body(LoginDoc("tok"), "invalid")) :
        s \in {200, 404}, u \in ResolvedUrls}

DataAnswers ==
    {NetFail} \cup
    {Answer(s, u, Body(d, "invalid")) :
        s \in {200, 404}, u \in ResolvedUrls, d \in DataDocs}

PickListPageAnswers ==
    {NetFail} \cup
    {Answer(s, u, Body(d, "invalid")) :
        s \in {200, 404}, u \in {PageUrl, LoginUrl}, d \in {PickListDoc, LoginDoc("tok")}}

PickListDataAnswers ==
    {NetFail} \cup
    {Answer(s, u, Body(Document(<< >>), j)) :
        s \in {200, 404}, u \in ResolvedUrls, j \in {"invalid", "object", "array"}}

Kinds  == {"dashboard", "roster", "rosterFull", "calendar", "picklist",
           "pickList", "schedule"}
Dates  == {None, "20240101"}
Chains == {None, "chain7"}

\* The answers get_telestaff can meet on the path its kind takes.
AnswersFor(kind) ==
    IF kind = "picklist"
    THEN [page : PickListPageAnswers,
          post : {NetFail, Answer(200, PageUrl, Body(PickListDoc, "invalid"))},
          data : PickListDataAnswers]
    ELSE [response : DataAnswers]

(***************************************************************************)
(* Actions.  A client is idle between calls; a call is one action, and     *)
(* Return hands the result to the caller, after which the client is idle   *)
(* again with the session state the call left.                             *)
(***************************************************************************)
Idle == [op |-> "idle"]

Init ==
    /\ call = Idle
    /\ env = [none |-> TRUE]
    /\ result = ReturnsNone
    /\ log = << >>
    /\ ran = "none"
    /\ csrfToken = NoToken
    /\ xhrHeaders = FALSE

Returned(o) ==
    /\ result' = o.result
    /\ log' = o.log
    /\ ran' = o.ran
    /\ csrfToken' = o.token

DoLogin ==
    /\ call = Idle
    /\ \E ntlm \in BOOLEAN, page \in LoginPageAnswers, post \in PostAnswers :
        /\ call' = [op |-> "do_login"]
        /\ env' = [ntlm |-> ntlm, page |-> page, post |-> post]
        /\ Returned(do_login(csrfToken, ntlm, page, post))
        /\ UNCHANGED xhrHeaders

DoLogout ==
    /\ call = Idle
    /\ \E answer \in PostAnswers :        \* do_logout meets the same answers
        /\ call' = [op |-> "do_logout"]
        /\ env' = [answer |-> answer]
        /\ Returned(do_logout(csrfToken, answer))
        /\ UNCHANGED xhrHeaders

GetTelestaff ==
    /\ call = Idle
    /\ \E kind \in Kinds, date \in Dates, chain \in Chains :
        \E answers \in AnswersFor(kind) :
            /\ call' = [op |-> "get_telestaff", kind |-> kind, date |-> date,
                        chain |-> chain]
            /\ env' = answers
            /\ Returned(get_telestaff(csrfToken, kind, date, chain, answers))
            /\ xhrHeaders' = (xhrHeaders \/ kind = "picklist")

GetTelestaffPicklist ==
    /\ call = Idle
    /\ \E date \in Dates \cup {""}, chain \in Chains :
        \E answers \in AnswersFor("picklist") :
            /\ call' = [op |-> "get_telestaff_picklist", kind |-> "picklist",
                        date |-> date, chain |-> chain]
            /\ env' = answers
            /\ Returned(get_telestaff_picklist(csrfToken, date, chain,
                            answers.page, answers.post, answers.data))
            /\ xhrHeaders' = TRUE

Return ==
    /\ call # Idle
    /\ call' = Idle
    /\ env' = [none |-> TRUE]
    /\ result' = ReturnsNone
    /\ log' = << >>
    /\ ran' = "none"
    /\ UNCHANGED <<csrfToken, xhrHeaders>>

Next == DoLogin \/ DoLogout \/ GetTelestaff \/ GetTelestaffPicklist \/ Return

Spec == Init /\ [][Next]_vars

(***************************************************************************)
(* Properties of the session / auth layer and of the facade                *)
(***************************************************************************)
\* A call of get_telestaff or get_telestaff_picklist that takes the
\* pick-list path.
PickListCall ==
    \/ call.op = "get_telestaff_picklist"
    \/ call.op = "get_telestaff" /\ call.kind = "picklist"

\* A call of get_telestaff that takes the path of get_telestaff_data.
DataCall == call.op = "get_telestaff" /\ call.kind # "picklist"

Succeeded(r) == r.tag = "dict" /\ r.status_code = 200
Failure(r)   == r.tag = "dict" /\ r.status_code # 200

\* A request that failed in transport or was answered with an HTTP error.
Failed(answer) == ~answer.net \/ raises_for_status(answer)

IsPost(r) == r.m = "POST"
IsLoginPost(r) == r.m = "POST" /\ r.url = resource_url("login", None)
IsPickListDataGet(r) ==
    r.m = "GET" /\ r.url = resource_url("pickListData", None)

\* C1: in every call of get_telestaff, each GET that is sent for a resource
\* comes after the login form POST of do_login in the same call.
C1_LoginBeforeResourceGet ==
    call.op = "get_telestaff" =>
        \A i \in DOMAIN log :
            (log[i].m = "GET" /\ log[i].sent) =>
                \E j \in 1..(i - 1) : IsLoginPost(log[j])

\* C2: do_login returns status_code 200 when the login page loads with a
\* CSRF token and the form POST is answered 200 at a URL other than the
\* login page path, and never when the POST resolves back to /login.
C2_LoginSuccess ==
    call.op = "do_login" =>
        /\ (/\ env.page.net /\ env.page.status = 200
            /\ ~Falsy(get_csrf_token(env.page))
            /\ env.post.net /\ env.post.status = 200
            /\ ~check_if_logged_out(env.post.url))
           => Succeeded(result)
        /\ (env.post.net /\ check_if_logged_out(env.post.url))
           => ~Succeeded(result)

\* C3: a transport or HTTP failure of a request of do_login, do_logout,
\* get_telestaff_data or get_telestaff_picklist (its first page GET and its
\* final data GET included) is handed back as a {status_code, data} result,
\* never raised.
C3_FailuresAreResults ==
    /\ (call.op = "do_login" /\ Failed(env.page)) => result.tag = "dict"
    /\ (call.op = "do_login" /\ \E i \in DOMAIN log : IsLoginPost(log[i])
        /\ Failed(env.post)) => result.tag = "dict"
    /\ (call.op = "do_logout" /\ Failed(env.answer)) => result.tag = "dict"
    /\ (DataCall /\ log[1].sent /\ Failed(env.response)) => result.tag = "dict"
    /\ (PickListCall /\ Failed(env.page)) => result.tag = "dict"
    /\ (PickListCall /\ IsPickListDataGet(log[Len(log)]) /\ Failed(env.data))
       => result.tag = "dict"

\* C4: when the login page is answered with a status other than 200,
\* do_login returns a failure result that carries that status, and the
\* login form is not posted.
C4_LoginPageStatusCarried ==
    (call.op = "do_login" /\ env.page.net /\ env.page.status # 200) =>
        /\ Failure(result)
        /\ (result.status_code = env.page.status
            \/ result.data.code = env.page.status)
        /\ \A i \in DOMAIN log : ~IsPost(log[i])

\* C5: when the login page is answered 200 and has no input named
\* CSRFToken, do_login returns a failure result with a status code and a
\* message, and the login form is not posted.
C5_MissingCsrfTokenIsResult ==
    (/\ call.op = "do_login" /\ env.page.net /\ env.page.status = 200
     /\ WithAttr(Descendants(env.page.body.html), "input", "name", "CSRFToken")
        = << >>) =>
        /\ Failure(result)
        /\ \A i \in DOMAIN log : ~IsPost(log[i])

\* C6: do_logout makes one GET of the logout endpoint; it returns a success
\* result exactly when the response resolved to the login page path, and a
\* failure result in every other case.
C6_LogoutResult ==
    call.op = "do_logout" =>
        /\ log = <<Get(resource_url("logout", None))>>
        /\ IF ~Failed(env.answer) /\ check_if_logged_out(env.answer.url)
           THEN Succeeded(result)
           ELSE Failure(result)

\* C7: when a data GET is answered without HTTP error at a URL that is the
\* login page, the result is a 403 failure and no extractor runs on the
\* body, for get_telestaff_data and for the pick-list data request alike.
C7_LoginRedirectIs403 ==
    /\ (/\ DataCall /\ log[1].sent /\ ~Failed(env.response)
        /\ check_if_logged_out(env.response.url))
       => (result.tag = "dict" /\ result.status_code = 403 /\ ran = "none")
    /\ (/\ PickListCall /\ IsPickListDataGet(log[Len(log)]) /\ ~Failed(env.data)
        /\ check_if_logged_out(env.data.url))
       => (result.tag = "dict" /\ result.status_code = 403 /\ ran = "none")

C17_ContactLogGets ==
    (/\ call.op = "do_login" /\ Len(log) >= 2 /\ IsLoginPost(log[2])
     /\ env.post.net /\ EndsWithSegment(env.post.url, "checkContactLog")) =>
        /\ Len(log) = 4
        /\ log[3] = Get(Path("contactLog", None)) /\ log[3].sent
        /\ log[4] = Get(Path("dispoContactLog", None)) /\ log[4].sent

\* C18: when the login page answers 401 and challenge-response credentials
\* are available, do_login requests the login page a second time and goes
\* on with that response; when they are not, do_login ends in a failure
\* without submitting the login form.
C18_ChallengeReplay ==
    (call.op = "do_login" /\ env.page.net /\ env.page.status = 401) =>
        IF env.ntlm
        THEN /\ Len(log) >= 2
             /\ log[1] = Get(resource_url("loginPage", None))
             /\ log[2] = Get(resource_url("loginPage", None))
        ELSE /\ Failure(result)
             /\ \A i \in DOMAIN log : ~IsPost(log[i])

\* C19: in get_telestaff_picklist with a chain selector the data GET is
\* issued only third, after the GET of the pick-list page and after the
\* POST to the selection-property endpoint that carries the date, the
\* selected region and shift options and the CSRF token of that page with
\* the chain; without a chain selector no POST is issued.
C19_PickListOrder ==
    call.op = "get_telestaff_picklist" =>
        /\ call.chain = None => \A i \in DOMAIN log : ~IsPost(log[i])
        /\ call.chain # None =>
            \A i \in DOMAIN log :
                IsPickListDataGet(log[i]) =>
                    /\ i = 3
                    /\ log[1].m = "GET" /\ log[1].url.key = "pickList"
                    /\ env.page.body.html = PickListDoc
                    /\ log[2] = Post(Path("customPickList", None),
                                     [date |-> "20240101", regionTbl |-> "r2",
                                      shiftTbl |-> "s1",
                                      strategyChainTbl |-> call.chain,
                                      CSRFToken |-> "tok2"])

C19_Witness ==
    /\ call.op = "get_telestaff_picklist" /\ call.chain = "chain7"
    /\ Len(log) = 3 /\ IsPost(log[2]) /\ IsPickListDataGet(log[3])
    /\ Succeeded(result)


(***************************************************************************)
(* The roster extractor as a function of the page: the page is drawn at    *)
(* the start and the extractor is applied to it.                           *)
(***************************************************************************)
Value(v) == [tag |-> "value", value |-> v]

Handed(r) == IF r.ok THEN Value(r.value) ELSE Raises(r.exc)

\* The roster table of a page, at most one.
RosterTable(raw) ==
    WithClass(Descendants(raw), "ol", "rosterTableList")

InitRoster ==
    /\ call = Idle
    /\ env \in {[raw |-> d] : d \in RosterDocs}
    /\ result = ReturnsNone
    /\ log = << >>
    /\ ran = "none"
    /\ csrfToken = NoToken
    /\ xhrHeaders = FALSE

ParseWebStaffRoster ==
    /\ call = Idle
    /\ call' = [op |-> "parse_web_staff_roster"]
    /\ result' = Handed(parse_web_staff_roster(env.raw))
    /\ UNCHANGED <<env, log, ran, csrfToken, xhrHeaders>>

ParseRoster ==
    /\ call = Idle
    /\ RosterTable(env.raw) # << >>
    /\ call' = [op |-> "parse_roster"]
    /\ result' = Handed(parse_roster(RosterTable(env.raw)[1]))
    /\ UNCHANGED <<env, log, ran, csrfToken, xhrHeaders>>

SpecRoster == InitRoster /\ [][ParseWebStaffRoster \/ ParseRoster]_vars

(***************************************************************************)
(* Properties of the roster extractor                                      *)
(***************************************************************************)
\* The list items below a node that carry the idPosition marker.
Positions(n) ==
    SelectSeq(Descendants(n), LAMBDA li : li.tag = "li" /\ HasClass(li, "idPosition"))

\* C9: parse_web_staff_roster raises on no shape of the roster table: a page
\* without ol.rosterTableList gives {error: 'No roster found'}, and a page
\* with it, also one without any marked list item, gives a mapping tagged
\* type 'roster'.  Stated for the pages without position items, whose member
\* records are another matter.
C9_RosterTableShapes ==
    (call.op = "parse_web_staff_roster" /\ Positions(env.raw) = << >>) =>
        /\ result.tag = "value"
        /\ IF RosterTable(env.raw) = << >>
           THEN result.value = [error |-> "No roster found"]
           ELSE /\ "type" \in DOMAIN result.value
                /\ result.value["type"] = "roster"

\* The hierarchy marker among the class tokens of a marked list item, and
\* the group type it names.
Marker(li) == SelectSeq(li.cls, LAMBDA token : token \in idClasses)[1]
GroupType(li) == Drop2(Marker(li))

\* The marked list items among the children of the roster table.
TopSiblings(raw) == SelectSeq(RosterTable(raw)[1].kids, IsIdLi)

\* The titles of the records of a list, and the titles the page gives to the
\* siblings of one group type, both in order.
TitlesOf(records) == [i \in DOMAIN records |-> records[i].title]
GroupTypes(raw) ==
    {GroupType(TopSiblings(raw)[i]) : i \in DOMAIN TopSiblings(raw)}
TitlesOfType(raw, groupType) ==
    TitlesOf(SelectSeq([i \in DOMAIN TopSiblings(raw) |->
                          [title |-> Strip(TopSiblings(raw)[i].kids[1].kids[1].text),
                           type  |-> GroupType(TopSiblings(raw)[i])]],
                       LAMBDA r : r.type = groupType))

MaxTitle == 4
MaxEvents == 2

\* The name-bearing fragments: no name div, a name div without a span, one
\* with the primary label only, and one with a blank primary label and the
\* secondary positionNameText label.
TitleDocs ==
    {Document(<< >>), Document(<<Div(<<"positionName">>, NoAttrs, << >>)>>)}
    \cup {Document(<<Div(<<"positionName">>, NoAttrs, <<Span(<< >>, t)>>)>>) :
            t \in SeqsUpTo({"A", " ", "{", "}", "."}, MaxTitle)}
    \cup {Document(<<Div(<<"positionName">>, NoAttrs,
                         <<Span(<< >>, blank),
                           Span(<<"positionNameText">>, t)>>)>>) :
            blank \in {<< >>, <<" ">>},
            t \in SeqsUpTo({"A", " ", "{", "}", "."}, MaxTitle - 1)}

\* The work-code elements: without a title, and with a title and every
\* combination of the two request attributes, of the exceptionCode label
\* (absent, plain, styled) and of the svg (absent, without a rect, with a
\* plain or a filled rect).
WorkCodeBlocks ==
    {MemberParts[3]}
    \cup {Node("div", << >>,
                enum @@ legacy @@ ("data-popup-title" :> "OT")
                @@ ("data-field" :> "workcode"),
                << >>, label \o icon) :
            enum \in {NoAttrs, "data-popup-statusenum" :> "APPROVAL_PENDING",
                      "data-popup-statusenum" :> "APPROVED"},
            legacy \in {NoAttrs, "data-popup-request" :> "true",
                        "data-popup-request" :> "false"},
            label \in {<< >>, <<Span(<<"exceptionCode">>, <<"O", "T">>)>>,
                       <<Node("span", <<"exceptionCode">>,
                              "style" :> "color:red;", <<"O", "T">>, << >>)>>},
            icon \in {<< >>} \cup
                {<<Node("svg", <<"svg">>, NoAttrs, << >>, rects)>> :
                    rects \in {<< >>,
                               <<Node("rect", << >>, NoAttrs, << >>, << >>)>>,
                               <<Node("rect", << >>, "style" :> "fill:#ff0000",
                                      << >>, << >>)>>}}}

\* The position nodes: every combination of the three status markers with
\* every work-code element, and every selection of the sub-elements.
MemberDocs ==
    {Node("li", <<"idPosition">>, "data-id" :> "p1", << >>,
          SelectSeq(<<Div(<<"nonWorking">>, NoAttrs, << >>),
                      Div(<<"unassignedPosition">>, NoAttrs, << >>),
                      Div(<<"vacancyDisplay">>, NoAttrs, << >>)>>,
                    LAMBDA d : d.cls[1] \in markers)
          \o [MemberParts EXCEPT ![3] = w]) :
        markers \in SUBSET {"nonWorking", "unassignedPosition", "vacancyDisplay"},
        w \in WorkCodeBlocks}
    \cup {Node("li", <<"idPosition">>, NoAttrs, << >>,
               SelectSeq(MemberParts, LAMBDA d : d \in parts)) :
            parts \in SUBSET {MemberParts[i] : i \in DOMAIN MemberParts}}

\* The event blocks of a day: with and without the type attribute, the
\* pending glyph, and the icon box (absent, empty, with a plain or a styled
\* inner div).
EventBlocks ==
    {Node("div", <<"listItem">>, type, << >>, glyph \o box) :
        type \in {NoAttrs, "data-attrtype" :> "shift"},
        glyph \in {<< >>, <<Span(<<"glyphicon", "glyphicon-asterisk">>, << >>)>>},
        box \in {<< >>} \cup
            {<<Div(<<"listItemBox">>, NoAttrs, inner)>> :
                inner \in {<< >>, <<Div(<< >>, NoAttrs, << >>)>>,
                           <<Div(<< >>, [style |-> "color: red"], << >>)>>}}}

\* The calendar pages: a date range, a header, and a container with one day
\* of up to MaxEvents events or with two days without events.  The labels
\* of the days are two that match the format and three that do not.
CalendarDocs ==
    {Document(<<Span(<<"dateRange">>, <<"J", "a", "n">>),
                Node("div", <<"listHeader">>, NoAttrs, <<"(", "A", ")">>, << >>),
                Div(<<"fullWidth">>, NoAttrs,
                    [i \in DOMAIN days |->
                        Div(<<"calendarDay">>, NoAttrs,
                            <<Node("div", <<"dateDiv">>, NoAttrs,
                                   days[i].label, << >>)>> \o days[i].events)])>>) :
        days \in UNION {[1..n -> [label : {DateLabel,
                                           [DateLabel EXCEPT ![1] = "Tuesday",
                                                             ![4] = "February",
                                                             ![6] = "1"],
                                           [DateLabel EXCEPT ![4] = "February",
                                                             ![6] = "30"],
                                           <<"2024-01-01">>, << >>},
                                  events : SeqsUpTo(EventBlocks,
                                                    IF n = 1 THEN MaxEvents ELSE 0)]] :
                        n \in 0..2}}

InitExtract ==
    /\ call = Idle
    /\ env \in {[of |-> "title", raw |-> d] : d \in TitleDocs}
            \cup {[of |-> "member", raw |-> d] : d \in MemberDocs}
            \cup {[of |-> "calendar", raw |-> d] : d \in CalendarDocs}
    /\ result = ReturnsNone
    /\ log = << >>
    /\ ran = "none"
    /\ csrfToken = NoToken
    /\ xhrHeaders = FALSE

GetRosterNameField ==
    /\ call = Idle
    /\ env.of = "title"
    /\ call' = [op |-> "get_roster_name_field"]
    /\ result' = Handed(get_roster_name_field(env.raw))
    /\ UNCHANGED <<env, log, ran, csrfToken, xhrHeaders>>

GetMemberInfo ==
    /\ call = Idle
    /\ env.of = "member"
    /\ call' = [op |-> "get_member_info"]
    /\ result' = Handed(get_member_info(env.raw))
    /\ UNCHANGED <<env, log, ran, csrfToken, xhrHeaders>>

ParseCalendar ==
    /\ call = Idle
    /\ env.of = "calendar"
    /\ call' = [op |-> "parse_calendar"]
    /\ result' = Handed(parse_calendar(env.raw))
    /\ UNCHANGED <<env, log, ran, csrfToken, xhrHeaders>>

ParseFullCalendar ==
    /\ call = Idle
    /\ env.of = "calendar"
    /\ call' = [op |-> "parse_full_calendar"]
    /\ result' = Handed(parse_full_calendar(env.raw))
    /\ UNCHANGED <<env, log, ran, csrfToken, xhrHeaders>>

ParseCalendarDashboard ==
    /\ call = Idle
    /\ env.of = "calendar"
    /\ call' = [op |-> "parse_calendar_dashboard"]
    /\ result' = Handed(parse_calendar_dashboard(env.raw))
    /\ UNCHANGED <<env, log, ran, csrfToken, xhrHeaders>>

SpecExtract ==
    InitExtract /\ [][\/ GetRosterNameField \/ GetMemberInfo \/ ParseCalendar
                      \/ ParseFullCalendar \/ ParseCalendarDashboard]_vars

(***************************************************************************)
(* Properties of the title rule                                            *)
(***************************************************************************)
\* The label text of a name-bearing fragment: the primary label trimmed,
\* or the secondary label as it stands when the primary is blank.
HasLabel(raw) ==
    /\ raw.kids # << >>
    /\ raw.kids[1].kids # << >>
    /\ (Strip(raw.kids[1].kids[1].text) = << >> => Len(raw.kids[1].kids) > 1)
LabelOf(raw) ==
    IF Strip(raw.kids[1].kids[1].text) # << >>
    THEN Strip(raw.kids[1].kids[1].text)
    ELSE raw.kids[1].kids[2].text

\* The text begins with the suppression marker: a dot, alone or after the
\* opening brace.
BeginsWithMarker(t) ==
    \/ Len(t) >= 1 /\ t[1] = "."
    \/ Len(t) >= 2 /\ t[1] = "{" /\ t[2] = "."

\* C11: the record get_roster_name_field returns has empty notes whenever
\* isSuppressed is true, and a title text that begins with a suppression
\* marker gives isSuppressed = true and empty notes, whatever follows.
C11_SuppressedHasNoNotes ==
    (call.op = "get_roster_name_field" /\ result.tag = "value") =>
        /\ result.value.isSuppressed => result.value.notes = << >>
        /\ (HasLabel(env.raw) /\ BeginsWithMarker(LabelOf(env.raw))) =>
            (result.value.isSuppressed /\ result.value.notes = << >>)

C11_Witness ==
    /\ call.op = "get_roster_name_field"
    /\ HasLabel(env.raw)
    /\ LabelOf(env.raw) = <<".", "{", "A", "}">>
    /\ result.tag = "value"
    /\ result.value.isSuppressed

\* The text ends with a brace-enclosed suffix that opens at position i.
SuffixAt(t, i) ==
    /\ i < Len(t) /\ t[i] = "{" /\ t[Len(t)] = "}"
    /\ \A j \in (i + 1)..(Len(t) - 1) : t[j] \notin {"{", "}"}

\* C12: a title text with a brace-enclosed suffix and no suppression marker
\* (also one that is nothing but the brace-enclosed text, and one taken from
\* the secondary label) gives notes equal to the trimmed content of the
\* suffix and isSuppressed = false.
C12_NotesAreTheSuffix ==
    (/\ call.op = "get_roster_name_field" /\ HasLabel(env.raw)
     /\ ~BeginsWithMarker(LabelOf(env.raw))) =>
        \A i \in 1..Len(LabelOf(env.raw)) :
            SuffixAt(LabelOf(env.raw), i) =>
                /\ result.tag = "value"
                /\ ~result.value.isSuppressed
                /\ result.value.notes
                   = Strip(SubSeq(LabelOf(env.raw), i + 1,
                                  Len(LabelOf(env.raw)) - 1))

(***************************************************************************)
(* Properties of the member information                                    *)
(***************************************************************************)
\* The node has a div with the class among its descendants.
HasMarker(raw, cls) ==
    \E i \in DOMAIN raw.kids : raw.kids[i].tag = "div" /\ raw.kids[i].cls = <<cls>>

\* C13: in the MemberInfo of a position node isWorking is false exactly
\* when a nonWorking marker is inside the node, isAssigned is false exactly
\* when an unassignedPosition marker is inside, isVacant is true exactly
\* when a vacancyDisplay marker is inside, each whatever the other two
\* markers are; a node with none of them gives true, true, false.
C13_StatusFlags ==
    (call.op = "get_member_info" /\ result.tag = "value") =>
        /\ result.value.isWorking = ~HasMarker(env.raw, "nonWorking")
        /\ result.value.isAssigned = ~HasMarker(env.raw, "unassignedPosition")
        /\ result.value.isVacant = HasMarker(env.raw, "vacancyDisplay")

C13_Witness ==
    /\ call.op = "get_member_info" /\ result.tag = "value"
    /\ HasMarker(env.raw, "nonWorking")
    /\ ~HasMarker(env.raw, "unassignedPosition")
    /\ HasMarker(env.raw, "vacancyDisplay")
    /\ ~result.value.isWorking /\ result.value.isAssigned
    /\ result.value.isVacant

\* The divs of the node with the value under data-field, and its
\* shiftTimes divs with the value under data-popup-title.
FieldDivs(raw, field) == WithAttr(Descendants(raw), "div", "data-field", field)
ShiftDivs(raw, title) ==
    WithAttr(WithClass(Descendants(raw), "div", "shiftTimes"), "div",
             "data-popup-title", title)

\* C16: whatever sub-lookups a position node lacks, get_member_info returns
\* a MemberInfo without raising, and every field whose sub-lookup is absent
\* keeps its default (duration 24, empty strings, isRequest false).
C16_AbsentKeepsDefault ==
    call.op = "get_member_info" =>
        /\ result.tag = "value"
        /\ FieldDivs(env.raw, "resourcedisplay") = << >> =>
            (result.value.name = "" /\ result.value.specialties = "")
        /\ FieldDivs(env.raw, "idcolumn") = << >> => result.value.badge = ""
        /\ FieldDivs(env.raw, "workcode") = << >> =>
            /\ result.value.workcode = ""
            /\ result.value.exceptioncode = ""
            /\ result.value.isRequest = "False"
        /\ ShiftDivs(env.raw, "From") = << >> => result.value.startTime = ""
        /\ ShiftDivs(env.raw, "Through") = << >> => result.value.endTime = ""
        /\ WithClass(Descendants(env.raw), "div", "shiftDuration") = << >> =>
            result.value.duration = 24

\* C20: when the work-code block carries the status-enum attribute,
\* isRequest says whether that attribute is "APPROVAL_PENDING", whatever the
\* legacy request attribute holds; the legacy attribute decides isRequest
\* only when the status-enum attribute is absent.
C20_StatusEnumFirst ==
    (/\ call.op = "get_member_info" /\ result.tag = "value"
     /\ FieldDivs(env.raw, "workcode") # << >>) =>
        /\ has_attr(FieldDivs(env.raw, "workcode")[1], "data-popup-statusenum") =>
            result.value.isRequest
            = (IF FieldDivs(env.raw, "workcode")[1].attrs["data-popup-statusenum"]
                  = "APPROVAL_PENDING"
               THEN "True" ELSE "False")
        /\ (/\ ~has_attr(FieldDivs(env.raw, "workcode")[1], "data-popup-statusenum")
            /\ has_attr(FieldDivs(env.raw, "workcode")[1], "data-popup-request")) =>
            result.value.isRequest
            = FieldDivs(env.raw, "workcode")[1].attrs["data-popup-request"]

(***************************************************************************)
(* Properties of the calendar                                              *)
(***************************************************************************)
CalendarCall ==
    call.op \in {"parse_calendar", "parse_full_calendar",
                 "parse_calendar_dashboard"}

\* The calendar-day blocks of the page, the label of a block and its events.
DayBlocks(raw) == WithClass(Descendants(raw), "div", "calendarDay")
LabelParses(day) == ParseDate(Strip(day.kids[1].text)).ok
EventsOf(day) == SubSeq(day.kids, 2, Len(day.kids))

\* C14: when a calendar-day block has a date label that does not match the
\* format, parse_calendar, parse_full_calendar and parse_calendar_dashboard
\* fail as a whole: no day list is returned, with or without that day.
C14_BadDateFails ==
    (/\ CalendarCall
     /\ \E i \in DOMAIN DayBlocks(env.raw) : ~LabelParses(DayBlocks(env.raw)[i])) =>
        result.tag = "raised"

C14_Witness ==
    /\ call.op = "parse_full_calendar"
    /\ Len(DayBlocks(env.raw)) = 2
    /\ LabelParses(DayBlocks(env.raw)[1])
    /\ ~LabelParses(DayBlocks(env.raw)[2])
    /\ result = Raises("ValueError")

\* C15: for calendar-day blocks whose date labels parse, parse_calendar
\* returns one CalendarDay for each, with the date as year, month and day,
\* and every event has isRequest = true exactly when its block contains the
\* pending glyph and type equal to its type attribute, or "unknown" without
\* the attribute; also for an event block without an icon box.
C15_DaysAndEvents ==
    (/\ call.op = "parse_calendar"
     /\ \A i \in DOMAIN DayBlocks(env.raw) : LabelParses(DayBlocks(env.raw)[i])) =>
        /\ result.tag = "value"
        /\ Len(result.value) = Len(DayBlocks(env.raw))
        /\ \A i \in DOMAIN DayBlocks(env.raw) :
            /\ result.value[i].date
               = ParseDate(Strip(DayBlocks(env.raw)[i].kids[1].text)).value
            /\ Len(result.value[i].events) = Len(EventsOf(DayBlocks(env.raw)[i]))
            /\ \A j \in DOMAIN EventsOf(DayBlocks(env.raw)[i]) :
                /\ result.value[i].events[j].isRequest
                   = (WithClass(Descendants(EventsOf(DayBlocks(env.raw)[i])[j]),
                                "span", "glyphicon-asterisk") # << >>)
                /\ result.value[i].events[j].type
                   = (IF has_attr(EventsOf(DayBlocks(env.raw)[i])[j], "data-attrtype")
                      THEN EventsOf(DayBlocks(env.raw)[i])[j].attrs["data-attrtype"]
                      ELSE "unknown")

(***************************************************************************)
(* Several clients.  creds is an attribute of the class Telestaff, a       *)
(* dictionary made once; __init__ binds no attribute of that name, so      *)
(* self.creds is that one dictionary for every instance.  env holds it     *)
(* under `creds` (csrfToken is its entry ['telestaff']['CSRFToken'], as    *)
(* before), and under `clients` it holds, for each instance, the cookies   *)
(* of its own session together with what the instance was given: the user  *)
(* name, the cookie strings (fromInit of them by its constructor), and     *)
(* whether do_login ran on it.                                             *)
(***************************************************************************)
MaxClients == 2
MaxSupplied == 2

\* The loop of set_cookies_from_string over the parts of
\* cookie_string.split(';'), from the part that starts at position i on:
\* a part is stripped and split at its first "=", and sets a cookie when
\* that gives two pieces.
RECURSIVE CookieLoop(_, _, _)
CookieLoop(cookies, cookie_string, i) ==
    LET end  == RunEnd(cookie_string, i, ";")
        part == Strip(SubSeq(cookie_string, i, end - 1))
        eq   == RunEnd(part, 1, "=")
        set  == IF eq <= Len(part)
                THEN (SubSeq(part, 1, eq - 1) :> SubSeq(part, eq + 1, Len(part)))
                     @@ cookies
                ELSE cookies
    IN  IF end > Len(cookie_string) THEN set
        ELSE CookieLoop(set, cookie_string, end + 1)

\* creds['cookies'] after set_cookies_from_string(cookie_string).
set_cookies_from_string(cookies, cookie_string) ==
    CookieLoop(cookies, cookie_string, 1)

\* The cookie strings handed to a client: "a=1" and "a=2; b=1;c", whose
\* last part sets no cookie.
CookieStrings ==
    {<<"a", "=", "1">>,
     <<"a", "=", "2", ";", " ", "b", "=", "1", ";", "c">>}

InitClients ==
    /\ call = Idle
    /\ env = [creds |-> [telestaff |-> [username |-> ""], cookies |-> << >>],
              clients |-> << >>]
    /\ result = ReturnsNone
    /\ log = << >>
    /\ ran = "none"
    /\ csrfToken = NoToken
    /\ xhrHeaders = FALSE

\* Telestaff(host, t_user, cookies = cookies): the entries of self.creds
\* are assigned, a cookie string is parsed into creds['cookies'], and the
\* new session takes the cookies of creds['cookies'].
Construct ==
    /\ Len(env.clients) < MaxClients
    /\ \E t_user \in {"u1", "u2"}, isStr \in BOOLEAN :
        \E cookies \in IF isStr THEN CookieStrings ELSE {<< >>} :
            /\ call' = [op |-> "__init__", self |-> Len(env.clients) + 1]
            /\ env' =
                LET jar == IF isStr             \* isinstance(cookies, str)
                           THEN set_cookies_from_string(env.creds.cookies, cookies)
                           ELSE env.creds.cookies
                IN  [creds |-> [telestaff |-> [username |-> t_user],
                                cookies |-> jar],
                     clients |-> Append(env.clients,
                                        [session |-> jar, t_user |-> t_user,
                                         supplied |-> IF isStr THEN <<cookies>>
                                                      ELSE << >>,
                                         fromInit |-> IF isStr THEN 1 ELSE 0,
                                         loggedIn |-> FALSE])]
    /\ result' = ReturnsNone
    /\ log' = << >>
    /\ ran' = "none"
    /\ UNCHANGED <<csrfToken, xhrHeaders>>

\* set_cookies_from_string on the instance self.
SetCookiesFromString ==
    \E self \in DOMAIN env.clients, cookie_string \in CookieStrings :
        /\ Len(env.clients[self].supplied) < MaxSupplied
        /\ call' = [op |-> "set_cookies_from_string", self |-> self]
        /\ env' = [env EXCEPT
                    !.creds.cookies = set_cookies_from_string(@, cookie_string),
                    !.clients[self].supplied = Append(@, cookie_string)]
        /\ result' = ReturnsNone
        /\ log' = << >>
        /\ ran' = "none"
        /\ UNCHANGED <<csrfToken, xhrHeaders>>

\* do_login on the instance self, when the login page is answered 200 or
\* 401 and the form POST fails or resolves to a page of the application.
DoLoginOn ==
    \E self \in DOMAIN env.clients, ntlm \in BOOLEAN,
       page \in {a \in LoginPageAnswers : a.net /\ a.status \in {200, 401}},
       post \in {a \in PostAnswers : a.net => a.status = 200 /\ a.url = PageUrl} :
        /\ call' = [op |-> "do_login", self |-> self]
        /\ env' = [env EXCEPT !.clients[self].loggedIn = TRUE]
        /\ Returned(do_login(csrfToken, ntlm, page, post))
        /\ UNCHANGED xhrHeaders

SpecClients ==
    InitClients /\ [][Construct \/ SetCookiesFromString \/ DoLoginOn]_vars

(***************************************************************************)
(* Properties of the session state of several clients                      *)
(***************************************************************************)
\* The cookies an instance holds when only the strings it was given itself
\* have been parsed, in the order they were given.
RECURSIVE OwnCookies(_, _, _)
OwnCookies(cookies, supplied, i) ==
    IF i > Len(supplied) THEN cookies
    ELSE OwnCookies(set_cookies_from_string(cookies, supplied[i]),
                    supplied, i + 1)

\* C21: the credentials, the cookies and the CSRF token a client reads are
\* its own: they are what its own constructor, its own
\* set_cookies_from_string and its own do_login left, whatever was
\* constructed or run on other instances, and the session of a new instance
\* starts with only the cookies given to its own constructor.
C21_StateIsPerInstance ==
    (call # Idle /\ call.op \in {"__init__", "set_cookies_from_string", "do_login"}
     /\ "clients" \in DOMAIN env) =>
        \A self \in DOMAIN env.clients :
            /\ env.creds.telestaff.username = env.clients[self].t_user
            /\ env.creds.cookies
               = OwnCookies(<< >>, env.clients[self].supplied, 1)
            /\ ~env.clients[self].loggedIn => csrfToken = NoToken
            /\ env.clients[self].session
               = OwnCookies(<< >>,
                            SubSeq(env.clients[self].supplied, 1,
                                   env.clients[self].fromInit), 1)

====
